---- MODULE Spec2Model ----
(***************************************************************************)
(* A model of the dryass-backup program: the metadata-gated entry points   *)
(* (BACKUP/functions.py backup_folder and backup_file, the file branch of  *)
(* main.py backup), the fingerprint fold of utils.get_folder_hash, the     *)
(* folder branch of main.py backup and utils.parallel_compress.            *)
(*                                                                         *)
(* Modelling conventions.                                                  *)
(*  - A file's bytes are an abstract content id.  BLAKE3 is taken as       *)
(*    collision free: a digest is the pair <<"b3", input>>, so two digests *)
(*    are equal exactly when their inputs are.  Hex digests have a fixed   *)
(*    length, so the concatenation the folder hasher is fed is the         *)
(*    sequence of the per-file digests.                                    *)
(*  - A directory tree is a function from paths (integers, whose order is  *)
(*    the lexicographic order of the path strings) to content ids.         *)
(*  - The top level of a folder handed to backup_folder holds directories  *)
(*    only, and a unit holds files or nothing.                             *)
(*  - Worker failures, archiver failures and the death of the process are  *)
(*    environment choices: every one the code can meet is an action.       *)
(***************************************************************************)
EXTENDS Integers, Sequences, FiniteSets, TLC

\* ------------------------------------------------------------- bounds
NumUnits == 2       \* top-level subfolders of the source folder
MaxFiles == 2       \* files per subfolder; also the number of content ids
MaxRuns == 2        \* invocations of an entry point in one behaviour
MaxEdits == 1       \* changes made to the source between invocations
MaxFaults == 1      \* failures and kills the environment injects

NumSubs == 2        \* top-level subfolders of a folder that is archived

Units == 1..NumUnits
Subs == 1..NumSubs
Paths == 1..MaxFiles
Contents == 1..MaxFiles

\* ------------------------------------------------------------- values
\* Python's None, as dict.get returns it for a missing key.
None == <<"None">>

\* blake3(...).hexdigest() of the bytes fed to the hasher.
Blake3(input) == <<"b3", input>>

\* utils.get_file_hash: the digest of one file's content.
get_file_hash(content) == Blake3(<<content>>)

\* The empty dict.
EmptyMap == [k \in {} |-> None]

\* dict.get(key).
MetaGet(m, k) == IF k \in DOMAIN m THEN m[k] ELSE None

\* metadata[key] = value.
MetaSet(m, k, v) == [j \in DOMAIN m \cup {k} |-> IF j = k THEN v ELSE m[j]]

\* The sequence of the elements of a finite set of integers, ascending:
\* files.sort() in get_folder_hash, and the order os.walk lists a unit in.
RECURSIVE Ascending(_)
Ascending(S) ==
    IF S = {} THEN <<>>
    ELSE LET m == CHOOSE x \in S : \A y \in S : x <= y
         IN  <<m>> \o Ascending(S \ {m})

\* The per-file digests of a tree in sorted-path order.
SortedDigests(tree) ==
    LET ps == Ascending(DOMAIN tree)
    IN  [i \in 1..Len(ps) |-> get_file_hash(tree[ps[i]])]

\* The trees a unit starts as: n files, each with a content of its own.
InitTrees == { [p \in 1..n |-> p] : n \in 0..MaxFiles }

\* The sequences that list every element of S once: the orders in which the
\* futures of a pool can complete.
Perms(S) ==
    { s \in [1..Cardinality(S) -> S] : \A i, j \in DOMAIN s : i # j => s[i] # s[j] }

\* The union of two dicts, the second one winning.
Merge(m1, m2) ==
    [k \in DOMAIN m1 \cup DOMAIN m2 |-> IF k \in DOMAIN m2 THEN m2[k] ELSE m1[k]]

\* The dict m restricted to the keys in S.
Restrict(m, S) == [k \in S |-> m[k]]

\* An output path nothing was written to yet.
NoArchive == [st |-> "none", entries |-> EmptyMap]

\* ------------------------------------------------------------- state
VARIABLES
    entry,        \* the entry point this session invokes
    src,          \* folder source: unit -> tree
    file,         \* file source: [content, big (size >= threshold)]
    metaFile,     \* the metadata file: [st: absent | partial | ok, data]
    archives,     \* folder destination: unit -> the file <unit>.zip
    backups,      \* file destination: the artifacts written, oldest first
    pc,           \* where the invocation is, or how the last one ended
    run,          \* invocations started so far
    edits,        \* source changes made so far
    faults,       \* failures and kills injected so far
    metadata,     \* the invocation's in-memory dict
    item,         \* index of the unit the loop is at (kept when it stops)
    futures,      \* get_folder_hash: files whose future is not consumed yet
    hasher,       \* get_folder_hash: the per-file digests fed so far
    current_hash, \* the digest the change check compares
    zipTodo,      \* zip_compression: files not yet written
    hashRaised,   \* a future of the unit's get_folder_hash raised
    \* history
    written,      \* <<unit, tree>>: zip_compression completed for that tree
    resumed,      \* the invocation before this one was killed
    \* main.backup (folder branch) and utils.parallel_compress
    tree,         \* the folder archived: path -> content
    subs,         \* its top-level subfolders (directory 0 is the folder)
    outFile,      \* the file at the output path: the final archive
    prevOut,      \* history: outFile when its writer last opened it
    mTodo,        \* main.backup: files the rglob loop has not reached
    innerZip,     \* main.backup: <tmp>/<source>_compressed.zip
    tempFiles,    \* main.backup: files copied verbatim under <tmp>
    file_hash,    \* main.backup: the dict of the per-file digests
    wstate,       \* parallel_compress: subfolder -> state of its future
    wTodo,        \* compress_subfolder: files the worker has not written
    tmpArc,       \* parallel_compress: subfolder -> <tmpdir>/<name>.7z
    futuresP,     \* parallel_compress: futures not popped yet
    temp_archives, \* parallel_compress: the list handed to merge_archives
    errors,       \* parallel_compress: subfolders reported as failed
    queue,        \* parallel_compress: progress messages not read yet
    extracted,    \* merge_archives: temporary archives extracted so far
    scratch,      \* merge_archives: the content of extract_dir
    \* multi_thread.multi_hash
    files,        \* multi_hash: the files it is called on
    mhFutures,    \* multi_hash: futures as_completed has not yielded yet
    hashes,       \* multi_hash: arcname -> digest
    to_zip,       \* multi_hash: list of (arcname, path) to compress
    to_copy       \* multi_hash: list of (arcname, path) to copy

gatedVars == <<src, file, metaFile, archives, backups, metadata, item,
               futures, hasher, current_hash, zipTodo, hashRaised, written,
               resumed>>
gatedRest == <<src, file, archives, backups, item, futures, hasher,
               current_hash, zipTodo, hashRaised, written, resumed>>
mainVars == <<mTodo, innerZip, tempFiles, file_hash>>
parVars == <<wstate, wTodo, tmpArc, futuresP, temp_archives, errors, queue,
             extracted, scratch>>
archVars == <<tree, subs, outFile, prevOut, mainVars, parVars>>

hashVars == <<files, mhFutures, hashes, to_zip, to_copy>>
vars == <<entry, pc, run, edits, faults, gatedVars, archVars, hashVars>>

fsVars == <<src, file, metaFile, archives, backups>>
localVars == <<metadata, item, futures, hasher, current_hash, zipTodo,
               hashRaised>>
histVars == <<written, resumed>>
envVars == <<entry, run, edits, faults>>

\* No invocation is running: none started yet, or the last one returned,
\* was killed, or ended with an exception raised where the pc names.
Ended == {"idle", "done", "killed", "load_raised", "hash_raised",
          "zip_raised", "copy_raised", "save_raised", "scan_raised",
          "store_raised", "direct_raised", "merge_raised", "result_raised"}
Running == pc \notin Ended

\* The key of the file entry points: the source file's name.
FileName == "name"

\* source.is_file(), on the source of an invocation of main.backup: a
\* regular file, a folder, or a path at which nothing exists.
is_file(e) == e = "mainfile"

\* The units the persisted metadata file records.
Recorded(mf) == IF mf.st = "ok" THEN DOMAIN mf.data ELSE {}

\* ------------------------------------------------------------- utils.py
\* load_metadata: {} when the file is absent, json.load of it otherwise;
\* json.load raises on a file that holds no complete JSON document.
load_raises(mf) == mf.st = "partial"
load_metadata(mf) == IF mf.st = "ok" THEN mf.data ELSE EmptyMap

\* save_metadata, first half: open(meta_file, "w") truncates the file.
save_open == [st |-> "partial", data |-> EmptyMap]

\* save_metadata, second half: json.dump wrote all of data; the file closes.
save_dump(data) == [st |-> "ok", data |-> data]

\* The values local to an invocation, as they are when none is running.
LocalsReset ==
    /\ metadata' = EmptyMap
    /\ futures' = {}
    /\ hasher' = <<>>
    /\ current_hash' = None
    /\ zipTodo' = {}
    /\ hashRaised' = FALSE

\* An entry point is called: the bookkeeping common to the three.
Begin ==
    /\ ~Running
    /\ run < MaxRuns
    /\ run' = run + 1
    /\ resumed' = (pc = "killed")
    /\ item' = 0
    /\ UNCHANGED <<entry, edits, faults, fsVars, written>>

\* ------------------------------------------------- BACKUP/functions.py
\* A change check that looks only at whether the unit is recorded.
FolderUpToDate_RecordedOnly(m, name, digest) == name \in DOMAIN m

\* A change check that finds no unit up to date.
FolderUpToDate_Never(m, name, digest) == FALSE

\* backup_folder's change check: metadata.get(item.name) == current_hash.
FolderUpToDate(m, name, digest) == MetaGet(m, name) = digest

\* backup_folder is called: load the metadata, enter the loop over the units.
\* An unparseable metadata file makes load_metadata raise before any work.
StartFolder ==
    /\ entry = "folder"
    /\ Begin
    /\ IF load_raises(metaFile)
       THEN /\ pc' = "load_raised"
            /\ LocalsReset
       ELSE /\ pc' = "loop"
            /\ metadata' = load_metadata(metaFile)
            /\ UNCHANGED <<futures, hasher, current_hash, zipTodo, hashRaised>>
    /\ UNCHANGED archVars
    /\ UNCHANGED hashVars

\* A unit taken for non-empty whatever it holds.
is_empty_Never(t) == FALSE

\* not any(item.iterdir()): the unit has no entry.
is_empty(t) == DOMAIN t = {}

\* for item in folder_path.iterdir(): an empty unit is skipped with a notice.
SkipEmpty ==
    /\ pc = "loop"
    /\ item < NumUnits
    /\ is_empty(src[item + 1])
    /\ item' = item + 1
    /\ UNCHANGED <<envVars, fsVars, pc, metadata, futures, hasher,
                   current_hash, zipTodo, hashRaised, histVars>>
    /\ UNCHANGED archVars
    /\ UNCHANGED hashVars

\* get_folder_hash(item): one get_file_hash job is submitted per file.
BeginHash ==
    /\ pc = "loop"
    /\ item < NumUnits
    /\ ~is_empty(src[item + 1])
    /\ item' = item + 1
    /\ futures' = DOMAIN src[item + 1]
    /\ hasher' = <<>>
    /\ hashRaised' = FALSE
    /\ pc' = "hashing"
    /\ UNCHANGED <<envVars, fsVars, metadata, current_hash, zipTodo, histVars>>
    /\ UNCHANGED archVars
    /\ UNCHANGED hashVars

\* A pool worker that rewrites the metadata file.
worker_frame_Saves == metadata' = metadata /\ metaFile' = save_dump(EmptyMap)

\* What a function run on a pool worker (get_file_hash, process_file,
\* compress_subfolder) does to the metadata mapping and the metadata file:
\* it is handed paths and refers to neither.
worker_frame == UNCHANGED <<metadata, metaFile>>

\* hasher.update(file_hash.encode()) with the digest of file f of the unit.
HashUpdate(h, f) == Append(h, get_file_hash(src[item][f]))

\* as_completed yields the future of file f, which returned a digest.
HashOk(f) ==
    /\ pc = "hashing"
    /\ f \in futures
    /\ futures' = futures \ {f}
    /\ hasher' = HashUpdate(hasher, f)
    /\ worker_frame
    /\ UNCHANGED <<envVars, src, file, archives, backups, pc, item,
                   current_hash, zipTodo, hashRaised, histVars>>
    /\ UNCHANGED archVars
    /\ UNCHANGED hashVars

\* as_completed yields the future of file f, which raised: the failure is
\* printed and the loop goes on to the next future.
HashRaise(f) ==
    /\ pc = "hashing"
    /\ f \in futures
    /\ faults < MaxFaults
    /\ faults' = faults + 1
    /\ futures' = futures \ {f}
    /\ hashRaised' = TRUE
    /\ worker_frame
    /\ UNCHANGED <<entry, run, edits, src, file, archives, backups, pc, item,
                   hasher, current_hash, zipTodo, histVars>>
    /\ UNCHANGED archVars
    /\ UNCHANGED hashVars

\* get_folder_hash returns hasher.hexdigest().
HashReturn ==
    /\ pc = "hashing"
    /\ futures = {}
    /\ current_hash' = Blake3(hasher)
    /\ pc' = "gate"
    /\ UNCHANGED <<envVars, fsVars, metadata, item, futures, hasher, zipTodo,
                   hashRaised, histVars>>
    /\ UNCHANGED archVars
    /\ UNCHANGED hashVars

\* The change check: up to date, or zip_compression is called.
FolderGate ==
    /\ entry = "folder"
    /\ pc = "gate"
    /\ pc' = IF FolderUpToDate(metadata, item, current_hash)
             THEN "loop" ELSE "zip"
    /\ UNCHANGED <<envVars, fsVars, localVars, histVars>>
    /\ UNCHANGED archVars
    /\ UNCHANGED hashVars

\* zip_compression lists the unit's files, then ZipFile(destination, "w")
\* creates or truncates <unit>.zip: until the with block ends the file on
\* disk is an incomplete archive.
ZipOpen ==
    /\ pc = "zip"
    /\ archives' = [archives EXCEPT ![item] =
                      [st |-> "partial", entries |-> EmptyMap]]
    /\ zipTodo' = DOMAIN src[item]
    /\ pc' = "zipping"
    /\ UNCHANGED <<envVars, src, file, metaFile, backups, metadata, item,
                   futures, hasher, current_hash, hashRaised, histVars>>
    /\ UNCHANGED archVars
    /\ UNCHANGED hashVars

\* Every file of all_files was written with zipf.write(fpath, arcname) and
\* the with block of the ZipFile ends: the archive is complete.
ZipClose ==
    /\ pc = "zipping"
    /\ archives' = [archives EXCEPT ![item] =
                      [st |-> "complete",
                       entries |-> [f \in zipTodo |-> src[item][f]]]]
    /\ zipTodo' = {}
    /\ written' = written \cup {<<item, src[item]>>}
    /\ pc' = "save"
    /\ UNCHANGED <<envVars, src, file, metaFile, backups, metadata, item,
                   futures, hasher, current_hash, hashRaised, resumed>>
    /\ UNCHANGED archVars
    /\ UNCHANGED hashVars

\* zip_compression raises (listing, opening or writing fails).  backup_folder
\* has no handler: the exception leaves the loop and the function.
ZipRaise ==
    /\ pc \in {"zip", "zipping"}
    /\ faults < MaxFaults
    /\ faults' = faults + 1
    /\ pc' = "zip_raised"
    /\ LocalsReset
    /\ UNCHANGED <<entry, run, edits, fsVars, item, histVars>>
    /\ UNCHANGED archVars
    /\ UNCHANGED hashVars

\* metadata[item.name] = current_hash, then save_metadata opens the file.
FolderSaveOpen ==
    /\ entry = "folder"
    /\ pc = "save"
    /\ metadata' = MetaSet(metadata, item, current_hash)
    /\ metaFile' = save_open
    /\ pc' = "dump"
    /\ UNCHANGED <<envVars, src, file, archives, backups, item, futures,
                   hasher, current_hash, zipTodo, hashRaised, histVars>>
    /\ UNCHANGED archVars
    /\ UNCHANGED hashVars

\* save_metadata completes; the loop goes on to the next unit.
FolderSaveDump ==
    /\ entry = "folder"
    /\ pc = "dump"
    /\ metaFile' = save_dump(metadata)
    /\ pc' = "loop"
    /\ UNCHANGED <<envVars, src, file, archives, backups, localVars, histVars>>
    /\ UNCHANGED archVars
    /\ UNCHANGED hashVars

\* json.dump raises part-way (the disk is full, the device fails): nothing
\* handles it in any entry point.
SaveRaise ==
    /\ pc = "dump"
    /\ faults < MaxFaults
    /\ faults' = faults + 1
    /\ pc' = "save_raised"
    /\ LocalsReset
    /\ UNCHANGED <<entry, run, edits, fsVars, item, histVars>>
    /\ UNCHANGED archVars
    /\ UNCHANGED hashVars

\* The loop is over: backup_folder returns.
EndFolder ==
    /\ entry = "folder"
    /\ pc = "loop"
    /\ item = NumUnits
    /\ pc' = "done"
    /\ LocalsReset
    /\ item' = 0
    /\ UNCHANGED <<envVars, fsVars, histVars>>
    /\ UNCHANGED archVars
    /\ UNCHANGED hashVars

\* The process is stopped (interrupt, kill, power loss) while it runs.
Kill ==
    /\ entry \in {"folder", "file", "mainfile"}
    /\ Running
    /\ faults < MaxFaults
    /\ faults' = faults + 1
    /\ pc' = "killed"
    /\ LocalsReset
    /\ item' = 0
    /\ UNCHANGED <<entry, run, edits, fsVars, histVars>>
    /\ UNCHANGED archVars
    /\ UNCHANGED hashVars

\* backup_file's change check:
\* metadata and metadata.get(name) == current_hash.
FileUpToDate(m, name, digest) == m # EmptyMap /\ MetaGet(m, name) = digest

\* backup_file is called: the metadata file is loaded when it exists.
StartFile ==
    /\ entry = "file"
    /\ Begin
    /\ IF load_raises(metaFile)
       THEN /\ pc' = "load_raised"
            /\ LocalsReset
       ELSE /\ pc' = "fhash"
            /\ metadata' = load_metadata(metaFile)
            /\ UNCHANGED <<futures, hasher, current_hash, zipTodo, hashRaised>>
    /\ UNCHANGED archVars
    /\ UNCHANGED hashVars

\* current_hash = get_file_hash(file_path), in the calling process (so also
\* file_hash = get_file_hash(source) in the file branch of main.backup).
FileHashOk ==
    /\ pc = "fhash"
    /\ current_hash' = get_file_hash(file.content)
    /\ pc' = "gate"
    /\ UNCHANGED <<envVars, fsVars, metadata, item, futures, hasher, zipTodo,
                   hashRaised, histVars>>
    /\ UNCHANGED archVars
    /\ UNCHANGED hashVars

\* Reading the source file fails: the exception ends the invocation.
FileHashRaise ==
    /\ pc = "fhash"
    /\ faults < MaxFaults
    /\ faults' = faults + 1
    /\ pc' = "hash_raised"
    /\ LocalsReset
    /\ UNCHANGED <<entry, run, edits, fsVars, item, histVars>>
    /\ UNCHANGED archVars
    /\ UNCHANGED hashVars

\* The change check of backup_file.
FileGate ==
    /\ entry = "file"
    /\ pc = "gate"
    /\ pc' = IF FileUpToDate(metadata, FileName, current_hash)
             THEN "uptodate" ELSE "copy"
    /\ UNCHANGED <<envVars, fsVars, localVars, histVars>>
    /\ UNCHANGED archVars
    /\ UNCHANGED hashVars

\* "No changes detected": the entry point returns.
ReturnUpToDate ==
    /\ pc = "uptodate"
    /\ pc' = "done"
    /\ LocalsReset
    /\ UNCHANGED <<envVars, fsVars, item, histVars>>
    /\ UNCHANGED archVars
    /\ UNCHANGED hashVars

\* shutil.copy2 to <name>_<timestamp><ext> below the threshold, a
\* ZIP_DEFLATED archive <name>_<timestamp>.zip from it on: a new file is
\* created at the destination.
FileBackupOpen ==
    /\ entry = "file"
    /\ pc = "copy"
    /\ backups' = Append(backups, [kind |-> IF file.big THEN "zip" ELSE "copy",
                                   st |-> "partial", entries |-> EmptyMap])
    /\ pc' = "copying"
    /\ UNCHANGED <<envVars, src, file, metaFile, archives, localVars, histVars>>
    /\ UNCHANGED archVars
    /\ UNCHANGED hashVars

\* The copy or the archive is complete.
FileBackupClose ==
    /\ entry = "file"
    /\ pc = "copying"
    /\ backups' = [backups EXCEPT ![Len(backups)] =
                     [@ EXCEPT !.st = "complete",
                               !.entries = [n \in {FileName} |-> file.content]]]
    /\ pc' = "save"
    /\ UNCHANGED <<envVars, src, file, metaFile, archives, localVars, histVars>>
    /\ UNCHANGED archVars
    /\ UNCHANGED hashVars

\* metadata[name] = current_hash, then save_metadata opens the file.
FileSaveOpen ==
    /\ entry = "file"
    /\ pc = "save"
    /\ metadata' = MetaSet(metadata, FileName, current_hash)
    /\ metaFile' = save_open
    /\ pc' = "dump"
    /\ UNCHANGED <<envVars, src, file, archives, backups, item, futures,
                   hasher, current_hash, zipTodo, hashRaised, histVars>>
    /\ UNCHANGED archVars
    /\ UNCHANGED hashVars

\* save_metadata completes and backup_file returns.
FileSaveDump ==
    /\ entry = "file"
    /\ pc = "dump"
    /\ metaFile' = save_dump(metadata)
    /\ pc' = "done"
    /\ LocalsReset
    /\ UNCHANGED <<envVars, src, file, archives, backups, item, histVars>>
    /\ UNCHANGED archVars
    /\ UNCHANGED hashVars

\* The copy or the compression raises in a file entry point (backup_file's
\* copy2 or ZipFile, main.backup's compress_selected_files): unhandled.
BackupRaise ==
    /\ pc \in {"copy", "copying", "compress", "compressing"}
    /\ faults < MaxFaults
    /\ faults' = faults + 1
    /\ pc' = "copy_raised"
    /\ LocalsReset
    /\ UNCHANGED <<entry, run, edits, fsVars, item, histVars>>
    /\ UNCHANGED archVars
    /\ UNCHANGED hashVars

\* ------------------------------------------------------------- main.py
\* The change check of the file branch of backup:
\* metadata.get(source.name) == file_hash.
MainUpToDate(m, name, digest) == MetaGet(m, name) = digest

\* backup is called on a file: destination.mkdir, then load_metadata.
StartMainFile ==
    /\ entry = "mainfile"
    /\ is_file(entry)
    /\ Begin
    /\ IF load_raises(metaFile)
       THEN /\ pc' = "load_raised"
            /\ LocalsReset
       ELSE /\ pc' = "fhash"
            /\ metadata' = load_metadata(metaFile)
            /\ UNCHANGED <<futures, hasher, current_hash, zipTodo, hashRaised>>
    /\ UNCHANGED archVars
    /\ UNCHANGED hashVars

\* The change check of the file branch.
MainGate ==
    /\ entry = "mainfile"
    /\ pc = "gate"
    /\ pc' = IF MainUpToDate(metadata, FileName, current_hash)
             THEN "uptodate" ELSE "compress"
    /\ UNCHANGED <<envVars, fsVars, localVars, histVars>>
    /\ UNCHANGED archVars
    /\ UNCHANGED hashVars

\* compress_selected_files(source, destination) opens the 7z archive.  The
\* archiver is an external library: the call returns or raises (BackupRaise).
MainCompressOpen ==
    /\ entry = "mainfile"
    /\ pc = "compress"
    /\ backups' = Append(backups, [kind |-> "7z", st |-> "partial",
                                   entries |-> EmptyMap])
    /\ pc' = "compressing"
    /\ UNCHANGED <<envVars, src, file, metaFile, archives, localVars, histVars>>
    /\ UNCHANGED archVars
    /\ UNCHANGED hashVars

\* compress_selected_files returns.  Its file list is source.rglob("*"),
\* which is empty for a source that is a file: the archive has no entry.
MainCompressClose ==
    /\ entry = "mainfile"
    /\ pc = "compressing"
    /\ backups' = [backups EXCEPT ![Len(backups)].st = "complete"]
    /\ pc' = "save"
    /\ UNCHANGED <<envVars, src, file, metaFile, archives, localVars, histVars>>
    /\ UNCHANGED archVars
    /\ UNCHANGED hashVars

\* metadata[source.name] = file_hash, then save_metadata opens the file.
MainSaveOpen ==
    /\ entry = "mainfile"
    /\ pc = "save"
    /\ metadata' = MetaSet(metadata, FileName, current_hash)
    /\ metaFile' = save_open
    /\ pc' = "dump"
    /\ UNCHANGED <<envVars, src, file, archives, backups, item, futures,
                   hasher, current_hash, zipTodo, hashRaised, histVars>>
    /\ UNCHANGED archVars
    /\ UNCHANGED hashVars

\* save_metadata completes and backup returns.
MainSaveDump ==
    /\ entry = "mainfile"
    /\ pc = "dump"
    /\ metaFile' = save_dump(metadata)
    /\ pc' = "done"
    /\ LocalsReset
    /\ UNCHANGED <<envVars, src, file, archives, backups, item, histVars>>
    /\ UNCHANGED archVars
    /\ UNCHANGED hashVars

\* ------------------------------------------------------------- environment
\* Between two invocations the user changes the content of the source file.
EditFile ==
    /\ entry \in {"file", "mainfile"}
    /\ ~Running
    /\ edits < MaxEdits
    /\ edits' = edits + 1
    /\ \E c \in Contents \ {file.content} :
          file' = [file EXCEPT !.content = c]
    /\ UNCHANGED <<entry, run, faults, src, metaFile, archives, backups, pc,
                   localVars, histVars>>
    /\ UNCHANGED archVars
    /\ UNCHANGED hashVars

\* The trees one change turns the tree t of a unit into: a file added,
\* a file removed, a file renamed, the content of a file changed.
Added(t) == { MetaSet(t, p, c) : p \in Paths \ DOMAIN t, c \in Contents }
Removed(t) == { Restrict(t, DOMAIN t \ {p}) : p \in DOMAIN t }
Renamed(t) ==
    { MetaSet(Restrict(t, DOMAIN t \ {p}), q, t[p]) :
        p \in DOMAIN t, q \in Paths \ DOMAIN t }
Changed(t) ==
    UNION { { [t EXCEPT ![p] = c] : c \in Contents \ {t[p]} } : p \in DOMAIN t }

\* Between two invocations of backup_folder the user changes one file of
\* one top-level subfolder of the source.
EditUnit ==
    /\ entry = "folder"
    /\ ~Running
    /\ edits < MaxEdits
    /\ edits' = edits + 1
    /\ \E u \in Units :
          \E t \in Added(src[u]) \cup Removed(src[u]) \cup Renamed(src[u])
                    \cup Changed(src[u]) :
              src' = [src EXCEPT ![u] = t]
    /\ UNCHANGED <<entry, run, faults, file, metaFile, archives, backups, pc,
                   localVars, histVars>>
    /\ UNCHANGED archVars
    /\ UNCHANGED hashVars

\* ------------------------------------------------- archived folders
\* The suffixes of the files a directory of an archived folder can hold.
ExtSeq == <<".txt", ".JPG">>

\* A path is <<directory, n>>: the file of suffix ExtSeq[n] in the top-level
\* subfolder `directory`, or in the folder itself when directory is 0.
PathsUnder(S) == (S \cup {0}) \X (1..Len(ExtSeq))

\* temp_path.joinpath(f"{source.name}_compressed.zip"), as a path relative to
\* the temporary directory; a file of that name directly under the source
\* has the same relative path.
temp_compressed == <<0, Len(ExtSeq) + 1>>

\* The paths a source handed to main.backup can hold.
MainPaths(S) == PathsUnder(S) \cup {temp_compressed}

\* file.suffix
Ext(p) == IF p = temp_compressed THEN ".zip" ELSE ExtSeq[p[2]]

\* str.lower(), on the suffixes of ExtSeq.
Lower(e) == IF e = ".JPG" THEN ".jpg" ELSE e

\* utils.SKIP_EXT
SKIP_EXT ==
    {".mp3", ".ogg", ".aac", ".opus", ".flac", ".wma", ".m4a", ".mid", ".midi",
     ".mp4", ".avi", ".mkv", ".mov", ".wmv", ".webm", ".flv",
     ".jpg", ".jpeg", ".png", ".gif", ".bmp", ".tga", ".dds", ".webp", ".ico",
     ".zip", ".rar", ".7z", ".gz", ".tar", ".tgz", ".xz", ".bz2",
     ".pak", ".vpk", ".bnk", ".pck", ".p4k",
     ".apk", ".iso", ".cab", ".cpk", ".dat"}

\* file.suffix.lower() not in SKIP_EXT
Compressible(p) == Lower(Ext(p)) \notin SKIP_EXT

\* The first path of a set in the order the directory walk lists them.
First(S) ==
    CHOOSE p \in S : \A q \in S :
        p[1] < q[1] \/ (p[1] = q[1] /\ p[2] <= q[2])

\* A final archive: what it holds in compressed form, what verbatim, and
\* the digests its metadata entry records.
NoOutput == [st |-> "none", packed |-> EmptyMap, verbatim |-> EmptyMap,
             hashes |-> EmptyMap]
PartialOutput == [st |-> "partial", packed |-> EmptyMap,
                  verbatim |-> EmptyMap, hashes |-> EmptyMap]

\* The values local to main.backup, as they are when it does not run.
MainReset ==
    /\ mTodo' = {}
    /\ innerZip' = NoArchive
    /\ tempFiles' = EmptyMap
    /\ file_hash' = EmptyMap

\* The values local to parallel_compress, as they are when it does not run.
ParReset ==
    /\ wstate' = EmptyMap
    /\ wTodo' = EmptyMap
    /\ tmpArc' = EmptyMap
    /\ futuresP' = {}
    /\ temp_archives' = <<>>
    /\ errors' = {}
    /\ queue' = 0
    /\ extracted' = 0
    /\ scratch' = EmptyMap

\* ----------------------------------------- main.py, the folder branch
\* backup is called on a source that is not a regular file: nothing else is
\* asked of the source.  The temporary directory is made and the inner
\* archive <source>_compressed.zip is opened for writing.
MainFolderStart ==
    /\ entry \in {"mainfolder", "missing"}
    /\ ~is_file(entry)
    /\ ~Running
    /\ run < MaxRuns
    /\ run' = run + 1
    /\ prevOut' = NoOutput
    /\ mTodo' = DOMAIN tree
    /\ innerZip' = [st |-> "partial", entries |-> EmptyMap]
    /\ tempFiles' = EmptyMap
    /\ file_hash' = EmptyMap
    /\ pc' = "scan"
    /\ UNCHANGED <<entry, edits, faults, gatedVars, tree, subs, outFile,
                   parVars>>
    /\ UNCHANGED hashVars

\* One pass of `for files in source.rglob("*")` on a file: its digest is
\* recorded, then it is written to the inner archive, or copied under the
\* temporary directory when its suffix is in SKIP_EXT.  The copy goes to the
\* file's relative path: at the path of the inner archive, shutil.copy2
\* writes over the archive that zipf holds open, and what is left there is
\* neither the source file nor a readable archive.
MainProcess ==
    /\ pc = "scan"
    /\ mTodo # {}
    /\ LET f == First(mTodo)
       IN  /\ file_hash' = MetaSet(file_hash, f, get_file_hash(tree[f]))
           /\ IF Compressible(f)
              THEN /\ innerZip' = [innerZip EXCEPT !.entries =
                                     MetaSet(@, f, tree[f])]
                   /\ UNCHANGED tempFiles
              ELSE IF f = temp_compressed
                   THEN /\ innerZip' = [innerZip EXCEPT !.st = "clobbered"]
                        /\ UNCHANGED tempFiles
                   ELSE /\ tempFiles' = MetaSet(tempFiles, f, tree[f])
                        /\ UNCHANGED innerZip
           /\ mTodo' = mTodo \ {f}
    /\ UNCHANGED <<entry, pc, run, edits, faults, gatedVars, tree, subs,
                   outFile, prevOut, parVars>>
    /\ UNCHANGED hashVars

\* Hashing, zipping or copying a file raises: nothing handles it, the
\* temporary directory is removed and backup ends.
ScanRaise ==
    /\ pc = "scan"
    /\ faults < MaxFaults
    /\ faults' = faults + 1
    /\ pc' = "scan_raised"
    /\ MainReset
    /\ UNCHANGED <<entry, run, edits, gatedVars, tree, subs, outFile, prevOut,
                   parVars>>
    /\ UNCHANGED hashVars

\* The loop is over: the inner archive is closed, metadata["hashes"] is set
\* to file_hash and saved under <tmp>/metadata.
MainInnerClose ==
    /\ pc = "scan"
    /\ mTodo = {}
    /\ innerZip' = [innerZip EXCEPT !.st = IF @ = "clobbered" THEN @
                                           ELSE "complete"]
    /\ pc' = "store"
    /\ UNCHANGED <<entry, run, edits, faults, gatedVars, tree, subs, outFile,
                   prevOut, mTodo, tempFiles, file_hash, parVars>>
    /\ UNCHANGED hashVars

\* zipfile.ZipFile(destination.with_suffix(".zip"), "w", ZIP_STORED) creates
\* or truncates the final archive.
StoreOpen ==
    /\ pc = "store"
    /\ prevOut' = outFile
    /\ outFile' = PartialOutput
    /\ pc' = "storing"
    /\ UNCHANGED <<entry, run, edits, faults, gatedVars, tree, subs, mainVars,
                   parVars>>
    /\ UNCHANGED hashVars

\* Every file under the temporary directory was written and the archive is
\* closed: the inner archive, the verbatim copies and the metadata entry.
StoreClose ==
    /\ pc = "storing"
    /\ outFile' = [st |-> "complete",
                   packed |-> IF innerZip.st = "complete"
                              THEN innerZip.entries ELSE EmptyMap,
                   verbatim |-> tempFiles, hashes |-> file_hash]
    /\ pc' = "done"
    /\ MainReset
    /\ UNCHANGED <<entry, run, edits, faults, gatedVars, tree, subs, prevOut,
                   parVars>>
    /\ UNCHANGED hashVars

\* Opening the final archive or writing one of its entries raises.
StoreRaise ==
    /\ pc \in {"store", "storing"}
    /\ faults < MaxFaults
    /\ faults' = faults + 1
    /\ pc' = "store_raised"
    /\ MainReset
    /\ UNCHANGED <<entry, run, edits, gatedVars, tree, subs, outFile, prevOut,
                   parVars>>
    /\ UNCHANGED hashVars

\* Between two invocations a file is added to the source folder.
AddFile ==
    /\ entry = "mainfolder"
    /\ ~Running
    /\ edits < MaxEdits
    /\ edits' = edits + 1
    /\ \E p \in MainPaths(subs) \ DOMAIN tree : tree' = MetaSet(tree, p, 1)
    /\ UNCHANGED <<entry, pc, run, faults, gatedVars, subs, outFile, prevOut,
                   mainVars, parVars>>
    /\ UNCHANGED hashVars

\* ------------------------------------- utils.py, parallel_compress
\* The files compress_subfolder writes for subfolder sf.
WorkerFiles(sf) == { p \in DOMAIN tree : p[1] = sf /\ Compressible(p) }

\* A future taken for done whatever its worker is doing.
future_done_Always(ws, sf) == TRUE

\* A future never seen as done.
future_done_Never(ws, sf) == FALSE

\* future.done(): the worker of the future returned or raised.
future_done(ws, sf) == ws[sf] # "running"

\* The result loop receiving a future that raised as if it had returned.
collect_result_Always(ta, sf, ok) == Append(ta, sf)

\* The result loop of parallel_compress on the future of sf: its archive
\* path is appended to temp_archives when future.result() returns.
collect_result(ta, sf, ok) == IF ok THEN Append(ta, sf) ELSE ta

\* parallel_compress is called.  Without subfolders the folder is compressed
\* directly; otherwise one compress_subfolder job is submitted per subfolder.
ParStart ==
    /\ entry = "parallel"
    /\ ~Running
    /\ run < MaxRuns
    /\ run' = run + 1
    /\ prevOut' = NoOutput
    /\ IF subs = {}
       THEN /\ pc' = "direct"
            /\ ParReset
       ELSE /\ pc' = "collect"
            /\ futuresP' = subs
            /\ wstate' = [sf \in subs |-> "running"]
            /\ wTodo' = [sf \in subs |-> WorkerFiles(sf)]
            /\ tmpArc' = [sf \in subs |-> NoArchive]
            /\ temp_archives' = <<>>
            /\ errors' = {}
            /\ queue' = 0
            /\ extracted' = 0
            /\ scratch' = EmptyMap
    /\ UNCHANGED <<entry, edits, faults, gatedVars, tree, subs, outFile,
                   mainVars>>
    /\ UNCHANGED hashVars

\* The no-subfolder branch opens the output archive for writing.
DirectOpen ==
    /\ pc = "direct"
    /\ prevOut' = outFile
    /\ outFile' = PartialOutput
    /\ pc' = "direct_writing"
    /\ UNCHANGED <<entry, run, edits, faults, gatedVars, tree, subs, mainVars,
                   parVars>>
    /\ UNCHANGED hashVars

\* The no-subfolder branch wrote every file whose suffix is not skipped.
DirectClose ==
    /\ pc = "direct_writing"
    /\ outFile' = [st |-> "complete",
                   packed |-> Restrict(tree, { p \in DOMAIN tree :
                                               Compressible(p) }),
                   verbatim |-> EmptyMap, hashes |-> EmptyMap]
    /\ pc' = "done"
    /\ UNCHANGED <<entry, run, edits, faults, gatedVars, tree, subs, prevOut,
                   mainVars, parVars>>
    /\ UNCHANGED hashVars

\* The no-subfolder branch raises.
DirectRaise ==
    /\ pc \in {"direct", "direct_writing"}
    /\ faults < MaxFaults
    /\ faults' = faults + 1
    /\ pc' = "direct_raised"
    /\ UNCHANGED <<entry, run, edits, gatedVars, tree, subs, outFile, prevOut,
                   mainVars, parVars>>
    /\ UNCHANGED hashVars

\* compress_subfolder(sf): queue.put of the progress message, then
\* archive.write of the next file, into <tmpdir>/<sf>.7z.
WorkerWrite(sf) ==
    /\ pc = "collect"
    /\ sf \in DOMAIN wstate
    /\ wstate[sf] = "running"
    /\ wTodo[sf] # {}
    /\ LET f == First(wTodo[sf])
       IN  /\ tmpArc' = [tmpArc EXCEPT ![sf] =
                           [st |-> "partial",
                            entries |-> MetaSet(tmpArc[sf].entries, f, tree[f])]]
           /\ wTodo' = [wTodo EXCEPT ![sf] = @ \ {f}]
    /\ queue' = queue + 1
    /\ worker_frame
    /\ UNCHANGED <<entry, pc, run, edits, faults, gatedRest, tree, subs,
                   outFile, prevOut, mainVars, wstate, futuresP,
                   temp_archives, errors, extracted, scratch>>
    /\ UNCHANGED hashVars

\* compress_subfolder(sf) closes its archive and returns archive_path.
WorkerReturn(sf) ==
    /\ pc = "collect"
    /\ sf \in DOMAIN wstate
    /\ wstate[sf] = "running"
    /\ wTodo[sf] = {}
    /\ wstate' = [wstate EXCEPT ![sf] = "returned"]
    /\ tmpArc' = [tmpArc EXCEPT ![sf].st = "complete"]
    /\ worker_frame
    /\ UNCHANGED <<entry, pc, run, edits, faults, gatedRest, tree, subs,
                   outFile, prevOut, mainVars, wTodo, futuresP, temp_archives,
                   errors, queue, extracted, scratch>>
    /\ UNCHANGED hashVars

\* compress_subfolder(sf) raises: what it wrote so far stays in <tmpdir>.
\* Any of the workers may raise, so these failures are not counted in faults.
WorkerRaise(sf) ==
    /\ pc = "collect"
    /\ sf \in DOMAIN wstate
    /\ wstate[sf] = "running"
    /\ wstate' = [wstate EXCEPT ![sf] = "raised"]
    /\ worker_frame
    /\ UNCHANGED <<entry, pc, run, edits, faults, gatedRest, tree, subs, outFile,
                   prevOut, mainVars, wTodo, tmpArc, futuresP, temp_archives,
                   errors, queue, extracted, scratch>>
    /\ UNCHANGED hashVars

\* The result loop finds the future of sf done and pops it: the archive path
\* is collected, or the error printed; the main progress advances.
Collect(sf) ==
    /\ pc = "collect"
    /\ sf \in futuresP
    /\ future_done(wstate, sf)
    /\ futuresP' = futuresP \ {sf}
    /\ temp_archives' = collect_result(temp_archives, sf, wstate[sf] = "returned")
    /\ errors' = IF wstate[sf] = "raised" THEN errors \cup {sf} ELSE errors
    /\ UNCHANGED <<entry, pc, run, edits, faults, gatedVars, tree, subs,
                   outFile, prevOut, mainVars, wstate, wTodo, tmpArc, queue,
                   extracted, scratch>>
    /\ UNCHANGED hashVars

\* while not queue.empty(): msg = queue.get()
Drain ==
    /\ pc = "collect"
    /\ queue > 0
    /\ queue' = queue - 1
    /\ UNCHANGED <<entry, pc, run, edits, faults, gatedVars, tree, subs,
                   outFile, prevOut, mainVars, wstate, wTodo, tmpArc,
                   futuresP, temp_archives, errors, extracted, scratch>>
    /\ UNCHANGED hashVars

\* `while futures` ends after a pass that left no future and drained the
\* queue; the pool is shut down and merge_archives is called.
LoopExit ==
    /\ pc = "collect"
    /\ futuresP = {}
    /\ queue = 0
    /\ pc' = "extract"
    /\ UNCHANGED <<entry, run, edits, faults, gatedVars, archVars>>
    /\ UNCHANGED hashVars

\* merge_archives extracts the next archive of temp_archives into extract_dir.
MergeExtract ==
    /\ pc = "extract"
    /\ extracted < Len(temp_archives)
    /\ extracted' = extracted + 1
    /\ scratch' = Merge(scratch, tmpArc[temp_archives[extracted + 1]].entries)
    /\ UNCHANGED <<entry, pc, run, edits, faults, gatedVars, tree, subs,
                   outFile, prevOut, mainVars, wstate, wTodo, tmpArc,
                   futuresP, temp_archives, errors, queue>>
    /\ UNCHANGED hashVars

\* merge_archives opens output_file for writing: it is created or truncated.
MergeOpen ==
    /\ pc = "extract"
    /\ extracted = Len(temp_archives)
    /\ prevOut' = outFile
    /\ outFile' = PartialOutput
    /\ pc' = "merging"
    /\ UNCHANGED <<entry, run, edits, faults, gatedVars, tree, subs, mainVars,
                   parVars>>
    /\ UNCHANGED hashVars

\* final_archive.writeall(extract_dir) completes and the archive is closed.
MergeClose ==
    /\ pc = "merging"
    /\ outFile' = [st |-> "complete", packed |-> scratch,
                   verbatim |-> EmptyMap, hashes |-> EmptyMap]
    /\ pc' = "done"
    /\ UNCHANGED <<entry, run, edits, faults, gatedVars, tree, subs, prevOut,
                   mainVars, parVars>>
    /\ UNCHANGED hashVars

\* merge_archives raises while it extracts or while it repacks.
MergeRaise ==
    /\ pc \in {"extract", "merging"}
    /\ faults < MaxFaults
    /\ faults' = faults + 1
    /\ pc' = "merge_raised"
    /\ UNCHANGED <<entry, run, edits, gatedVars, tree, subs, outFile, prevOut,
                   mainVars, parVars>>
    /\ UNCHANGED hashVars

\* The process is stopped while main.backup or parallel_compress runs.
ArchKill ==
    /\ entry \in {"mainfolder", "missing", "parallel"}
    /\ Running
    /\ faults < MaxFaults
    /\ faults' = faults + 1
    /\ pc' = "killed"
    /\ MainReset
    /\ ParReset
    /\ UNCHANGED <<entry, run, edits, gatedVars, tree, subs, outFile, prevOut>>
    /\ UNCHANGED hashVars

\* ------------------------------------- multi_thread.py, multi_hash
\* The suffix of each file multi_hash can be handed; file n has content n.
Suffixes == <<"", ".txt", ".JPG", ".zip">>

\* file.relative_to(source)
Arcname(f) == <<"rel", f>>

\* The path of file f, as process_file returns it for a compressible file.
PathOf(f) == <<"path", f>>

\* A worker that compares the suffix as it is spelled.
process_file_CaseSensitive(f) ==
    [arcname |-> Arcname(f), hsh |-> get_file_hash(f),
     compressible |-> IF Suffixes[f] \notin SKIP_EXT THEN PathOf(f) ELSE None]

\* process_file(file, source): (arcname, digest, file) when the lower-cased
\* suffix is not in SKIP_EXT, (arcname, digest, None) otherwise.
process_file(f) ==
    [arcname |-> Arcname(f), hsh |-> get_file_hash(f),
     compressible |-> IF Lower(Suffixes[f]) \notin SKIP_EXT
                      THEN PathOf(f) ELSE None]

\* multi_hash(files, source) is called: one process_file job per file.
MultiHashStart ==
    /\ entry = "multi_hash"
    /\ ~Running
    /\ run < MaxRuns
    /\ run' = run + 1
    /\ mhFutures' = files
    /\ hashes' = EmptyMap
    /\ to_zip' = <<>>
    /\ to_copy' = <<>>
    /\ pc' = "classify"
    /\ UNCHANGED <<entry, edits, faults, gatedVars, archVars, files>>

\* as_completed yields the future of file f: its digest is recorded and the
\* file is appended to to_zip or to to_copy.
MultiHashResult(f) ==
    /\ pc = "classify"
    /\ f \in mhFutures
    /\ LET r == process_file(f)
       IN  /\ hashes' = MetaSet(hashes, r.arcname, r.hsh)
           /\ IF r.compressible # None
              THEN /\ to_zip' = Append(to_zip, <<r.arcname, r.compressible>>)
                   /\ UNCHANGED to_copy
              ELSE /\ to_copy' = Append(to_copy, <<r.arcname, PathOf(f)>>)
                   /\ UNCHANGED to_zip
    /\ mhFutures' = mhFutures \ {f}
    /\ worker_frame
    /\ UNCHANGED <<entry, pc, run, edits, faults, gatedRest, archVars, files>>

\* fut.result() raises what process_file raised: multi_hash has no handler.
MultiHashRaise(f) ==
    /\ pc = "classify"
    /\ f \in mhFutures
    /\ faults < MaxFaults
    /\ faults' = faults + 1
    /\ pc' = "result_raised"
    /\ mhFutures' = {}
    /\ worker_frame
    /\ UNCHANGED <<entry, run, edits, gatedRest, archVars, files, hashes,
                   to_zip, to_copy>>

\* Every future was yielded: multi_hash returns (hashes, to_zip, to_copy).
MultiHashReturn ==
    /\ pc = "classify"
    /\ mhFutures = {}
    /\ pc' = "done"
    /\ UNCHANGED <<entry, run, edits, faults, gatedVars, archVars, hashVars>>

\* ------------------------------------------------------------- spec
\* Before anything ran: no metadata file, no archive, nothing in memory.
Quiet ==
    /\ metaFile = [st |-> "absent", data |-> EmptyMap]
    /\ archives = [u \in Units |-> NoArchive]
    /\ backups = <<>>
    /\ pc = "idle"
    /\ run = 0
    /\ edits = 0
    /\ faults = 0
    /\ metadata = EmptyMap
    /\ item = 0
    /\ futures = {}
    /\ hasher = <<>>
    /\ current_hash = None
    /\ zipTodo = {}
    /\ hashRaised = FALSE
    /\ written = {}
    /\ resumed = FALSE
    /\ outFile = NoOutput
    /\ prevOut = NoOutput
    /\ mTodo = {}
    /\ innerZip = NoArchive
    /\ tempFiles = EmptyMap
    /\ file_hash = EmptyMap
    /\ wstate = EmptyMap
    /\ wTodo = EmptyMap
    /\ tmpArc = EmptyMap
    /\ futuresP = {}
    /\ temp_archives = <<>>
    /\ errors = {}
    /\ queue = 0
    /\ extracted = 0
    /\ scratch = EmptyMap
    /\ mhFutures = {}
    /\ hashes = EmptyMap
    /\ to_zip = <<>>
    /\ to_copy = <<>>

NoFolderSource == src = [u \in Units |-> EmptyMap]
NoFileSource == file = [content |-> 1, big |-> FALSE]
NoTree == tree = EmptyMap /\ subs = {}
NoFiles == files = {}

\* The metadata-gated entry points, each on its source.
Init ==
    /\ Quiet
    /\ NoTree
    /\ NoFiles
    /\ \/ /\ entry = "folder"
          /\ src \in [Units -> InitTrees]
          /\ NoFileSource
       \/ /\ entry = "file"
          /\ NoFolderSource
          /\ file \in [content : {1}, big : BOOLEAN]
       \/ /\ entry = "mainfile"
          /\ NoFolderSource
          /\ NoFileSource

Next ==
    \/ StartFolder
    \/ SkipEmpty
    \/ BeginHash
    \/ \E f \in Paths : HashOk(f)
    \/ \E f \in Paths : HashRaise(f)
    \/ HashReturn
    \/ FolderGate
    \/ ZipOpen
    \/ ZipClose
    \/ ZipRaise
    \/ FolderSaveOpen
    \/ FolderSaveDump
    \/ SaveRaise
    \/ EndFolder
    \/ StartFile
    \/ FileHashOk
    \/ FileHashRaise
    \/ FileGate
    \/ ReturnUpToDate
    \/ FileBackupOpen
    \/ FileBackupClose
    \/ FileSaveOpen
    \/ FileSaveDump
    \/ BackupRaise
    \/ StartMainFile
    \/ MainGate
    \/ MainCompressOpen
    \/ MainCompressClose
    \/ MainSaveOpen
    \/ MainSaveDump
    \/ EditFile
    \/ Kill

Spec == Init /\ [][Next]_vars

\* The writers of a final archive, each on a folder with some of its
\* subfolders and some files in them and beside them.
InitArch ==
    /\ Quiet
    /\ NoFiles
    /\ NoFolderSource
    /\ NoFileSource
    /\ \/ /\ entry = "mainfolder"
          /\ subs \in SUBSET Subs
          /\ \E P \in SUBSET MainPaths(subs) : tree = [p \in P |-> 1]
       \/ /\ entry = "parallel"
          /\ subs \in SUBSET Subs
          /\ \E P \in SUBSET PathsUnder(subs) : tree = [p \in P |-> 1]
       \/ /\ entry = "missing"
          /\ NoTree

NextArch ==
    \/ MainFolderStart
    \/ MainProcess
    \/ ScanRaise
    \/ MainInnerClose
    \/ StoreOpen
    \/ StoreClose
    \/ StoreRaise
    \/ AddFile
    \/ ParStart
    \/ DirectOpen
    \/ DirectClose
    \/ DirectRaise
    \/ \E sf \in Subs : WorkerWrite(sf)
    \/ \E sf \in Subs : WorkerReturn(sf)
    \/ \E sf \in Subs : WorkerRaise(sf)
    \/ \E sf \in Subs : Collect(sf)
    \/ Drain
    \/ LoopExit
    \/ MergeExtract
    \/ MergeOpen
    \/ MergeClose
    \/ MergeRaise
    \/ ArchKill

SpecArch == InitArch /\ [][NextArch]_vars

\* backup_folder run again and again on a source the user changes in
\* between, nothing failing.
InitEdit ==
    /\ Quiet
    /\ NoTree
    /\ NoFiles
    /\ NoFileSource
    /\ entry = "folder"
    /\ src \in [Units -> InitTrees]

NextEdit ==
    \/ StartFolder
    \/ SkipEmpty
    \/ BeginHash
    \/ \E f \in Paths : HashOk(f)
    \/ HashReturn
    \/ FolderGate
    \/ ZipOpen
    \/ ZipClose
    \/ FolderSaveOpen
    \/ FolderSaveDump
    \/ EndFolder
    \/ EditUnit

SpecEdit == InitEdit /\ [][NextEdit]_vars

\* parallel_compress alone, on a folder with some of its subfolders; each
\* holds a file the workers skip and may hold one they write.
InitPar ==
    /\ Quiet
    /\ NoFolderSource
    /\ NoFileSource
    /\ NoFiles
    /\ entry = "parallel"
    /\ subs \in SUBSET Subs
    /\ LET all == subs \X (1..Len(ExtSeq))
           skipped == { p \in all : ~Compressible(p) }
       IN  \E P \in SUBSET (all \ skipped) :
               tree = [p \in P \cup skipped |-> 1]

\* A step of a compress_subfolder worker that goes on or returns.
WorkerStep == \E sf \in Subs : WorkerWrite(sf) \/ WorkerReturn(sf)

\* A step of the orchestrator in and out of its result loop.
LoopStep == (\E sf \in Subs : Collect(sf)) \/ Drain \/ LoopExit

NextPar ==
    \/ ParStart
    \/ DirectOpen
    \/ DirectClose
    \/ DirectRaise
    \/ \E sf \in Subs : WorkerWrite(sf)
    \/ \E sf \in Subs : WorkerReturn(sf)
    \/ \E sf \in Subs : WorkerRaise(sf)
    \/ \E sf \in Subs : Collect(sf)
    \/ Drain
    \/ LoopExit
    \/ MergeExtract
    \/ MergeOpen
    \/ MergeClose
    \/ MergeRaise
    \/ ArchKill

\* The pool runs every worker until it returns or raises, and the
\* orchestrator's loop spins without waiting on anything.
SpecPar ==
    /\ InitPar
    /\ [][NextPar]_vars
    /\ WF_vars(WorkerStep)
    /\ WF_vars(LoopStep)

\* multi_hash, on any list of distinct files.
InitHash ==
    /\ Quiet
    /\ NoFolderSource
    /\ NoFileSource
    /\ NoTree
    /\ entry = "multi_hash"
    /\ files \in SUBSET (1..Len(Suffixes))

NextHash ==
    \/ MultiHashStart
    \/ \E f \in 1..Len(Suffixes) : MultiHashResult(f)
    \/ \E f \in 1..Len(Suffixes) : MultiHashRaise(f)
    \/ MultiHashReturn

SpecHash == InitHash /\ [][NextHash]_vars

\* ------------------------------------------------------------- claims
\* A digest that get_folder_hash can return for a tree all of whose files
\* were read: the fold of its per-file digests in some completion order.
IsDigestOf(d, t) ==
    \E p \in Perms(DOMAIN t) :
        d = Blake3([i \in 1..Len(p) |-> get_file_hash(t[p[i]])])

\* C1: when every file of a unit was read, get_folder_hash returns the fold
\* of the per-file digests in sorted-path order, whatever order the hashing
\* workers completed in.
C1_SortedFold ==
    (entry = "folder" /\ pc = "gate" /\ ~hashRaised)
        => current_hash = Blake3(SortedDigests(src[item]))

\* C2: an invocation of backup_folder that follows completed, undisturbed
\* ones on the same source calls zip_compression for no unit and leaves the
\* metadata file as it found it.
C2_SecondRunIdle ==
    [][(entry = "folder" /\ run >= 2 /\ faults = 0)
          => (pc' # "zip" /\ metaFile' = metaFile)]_vars

\* C3: at the change check of backup_folder, backup_file and the file branch
\* of main.backup, the unit goes on to be backed up exactly when the loaded
\* metadata has no entry under its name or the entry differs from the
\* current digest; the check writes neither the metadata (in memory or on
\* disk) nor any archive.
GateKey == IF entry = "folder" THEN item ELSE FileName
NeedsBackup ==
    GateKey \notin DOMAIN metadata \/ metadata[GateKey] # current_hash
C3_GateIff ==
    [][(pc = "gate" /\ pc' # "killed")
          => /\ pc' \in {"zip", "copy", "compress", "loop", "uptodate"}
             /\ (pc' \in {"zip", "copy", "compress"}) <=> NeedsBackup
             /\ UNCHANGED <<metadata, metaFile, archives, backups>>]_vars

\* C3 witness: the check of backup_folder has sent a unit to zip_compression
\* that is recorded, with a digest other than the current one.
C3_Witness ==
    /\ entry = "folder"
    /\ pc = "zip"
    /\ item \in DOMAIN metadata
    /\ metadata[item] # current_hash

\* C5: every entry unit -> digest of the persisted metadata file names a unit
\* for which zip_compression completed on a tree that has that digest.
C5_RecordedWasArchived ==
    entry = "folder" =>
        \A u \in Recorded(metaFile) :
            \E w \in written : w[1] = u /\ IsDigestOf(metaFile.data[u], w[2])

\* C6: an invocation of backup_folder that follows a killed one (nothing else
\* having failed, the source unchanged) does not fail to start and sends no
\* unit to zip_compression that the metadata file recorded.
C6_ResumeSkipsRecorded ==
    [][(entry = "folder" /\ resumed' /\ faults' = 1)
          => /\ pc' # "load_raised"
             /\ (pc = "gate" /\ pc' = "zip") => item \notin DOMAIN metadata]_vars

\* C7: when zip_compression raised for a unit, the invocation does not stop
\* there with non-empty units of the source still unvisited.
C7_ZipFailureIsolated ==
    pc = "zip_raised" => \A u \in Units : u > item => DOMAIN src[u] = {}

\* C8: once a file of a unit failed to be read by get_folder_hash, the unit
\* is not sent to zip_compression and the metadata file is not written for
\* it.
C8_HashFailureFailsUnit ==
    [][(entry = "folder" /\ hashRaised)
          => (pc' # "zip" /\ metaFile' = metaFile)]_vars

\* C4: in the folder branch of main.backup, a run that follows a successful
\* run compresses or copies no file whose digest equals the digest that run
\* recorded for it.
C4_OnlyChangedProcessed ==
    [][(entry = "mainfolder" /\ pc = "scan" /\ mTodo' # mTodo /\ faults = 0
        /\ outFile.st = "complete")
       => \A f \in mTodo \ mTodo' :
            ~(f \in DOMAIN outFile.hashes
              /\ outFile.hashes[f] = get_file_hash(tree[f]))]_vars

\* The subfolders whose worker ended in state st.
WorkersIn(st) == { sf \in DOMAIN wstate : wstate[sf] = st }

\* The paths compress_subfolder writes for the subfolders of S.
DataOf(S) == { p \in DOMAIN tree : p[1] \in S /\ Compressible(p) }

\* C9: once the result loop of parallel_compress is over, every worker that
\* raised was reported, temp_archives holds the archive of every worker that
\* returned, each once, and of no other; the final archive holds the data of
\* the subfolders whose worker returned and nothing else.
C9_MergeOnlySucceeded ==
    (entry = "parallel" /\ subs # {} /\ pc \in {"extract", "merging", "done"})
    => /\ errors = WorkersIn("raised")
       /\ { temp_archives[i] : i \in 1..Len(temp_archives) }
            = WorkersIn("returned")
       /\ Len(temp_archives) = Cardinality(WorkersIn("returned"))
       /\ pc = "done"
          => /\ outFile.st = "complete"
             /\ outFile.packed = Restrict(tree, DataOf(WorkersIn("returned")))

\* A merge completed after one worker raised with data already written to
\* its temporary archive and another returned with data.
C9_Witness ==
    /\ entry = "parallel"
    /\ pc = "done"
    /\ \E sf \in WorkersIn("raised") : DOMAIN tmpArc[sf].entries # {}
    /\ \E sf \in WorkersIn("returned") : DOMAIN tmpArc[sf].entries # {}

\* C10: when the step that writes the final archive raises, an archive left
\* at the output path by a previous successful run is there unchanged.
C10_PreviousArchiveKept ==
    (pc \in {"store_raised", "merge_raised"} /\ prevOut.st = "complete")
    => outFile = prevOut

\* C11: when save_metadata raised or the process stopped, the metadata file
\* is not left truncated or partly written: it holds a complete mapping, the
\* previous one or the new one.
C11_SaveAllOrNothing ==
    pc \in {"killed", "save_raised"} => metaFile.st # "partial"

\* C12: load_metadata never raises: no invocation ends in the load of the
\* metadata file.
C12_LoadNeverFails == pc # "load_raised"

\* C13: main.backup on a source path at which nothing exists creates or
\* modifies no archive.
C13_MissingSourceAborts == entry = "missing" => outFile = NoOutput

\* In backup_folder a top-level subfolder with no entries gets no
\* archive and no metadata entry, in memory or on disk, is never
\* fingerprinted, and the loop steps over it to the next unit.
C14_NoTraceOfEmpty ==
    entry = "folder" =>
        \A u \in Units : DOMAIN src[u] = {} =>
            /\ archives[u] = NoArchive
            /\ u \notin DOMAIN metadata
            /\ u \notin DOMAIN metaFile.data
            /\ item = u => pc = "loop"

\* C14: an empty subfolder never leaves a trace, and from an empty
\* subfolder the loop of backup_folder steps to the next unit.
C14_EmptySkipped ==
    /\ []C14_NoTraceOfEmpty
    /\ [][(entry = "folder" /\ pc = "loop" /\ item < NumUnits
           /\ pc' # "killed")
          => (DOMAIN src[item + 1] = {}
                => (item' = item + 1 /\ pc' = "loop"))]_vars

\* C14 witness: an empty subfolder was stepped over and a later one was
\* archived and recorded.
C14_Witness ==
    /\ entry = "folder"
    /\ \E u \in Units, v \in Units :
          /\ u < v
          /\ DOMAIN src[u] = {}
          /\ archives[v].st = "complete"
          /\ v \in Recorded(metaFile)

\* The first components of the pairs of a list.
Names(list) == { list[i][1] : i \in 1..Len(list) }

\* C15: when multi_hash has returned, every input file is in exactly one of
\* to_zip and to_copy, in to_copy exactly when its lower-cased suffix is in
\* SKIP_EXT (a file without suffix is in to_zip), and hashes has one entry
\* per input file, its digest; so the three results, as sets, are the same
\* whatever order the workers completed in.
C15_Partition ==
    (entry = "multi_hash" /\ pc = "done") =>
        /\ Names(to_zip) \cup Names(to_copy) = { Arcname(f) : f \in files }
        /\ Names(to_zip) \cap Names(to_copy) = {}
        /\ Len(to_zip) + Len(to_copy) = Cardinality(files)
        /\ DOMAIN hashes = { Arcname(f) : f \in files }
        /\ \A f \in files :
              /\ Arcname(f) \in Names(to_copy)
                    <=> Suffixes[f] \in {".JPG", ".zip"}
              /\ Suffixes[f] = "" => Arcname(f) \in Names(to_zip)
              /\ hashes[Arcname(f)] = get_file_hash(f)

\* C15 witness: multi_hash returned on all the files, the workers having
\* completed in another order than the order of the list.
C15_Witness ==
    /\ entry = "multi_hash"
    /\ pc = "done"
    /\ files = 1..Len(Suffixes)
    /\ to_zip[1][1] = Arcname(2)
    /\ to_copy[1][1] = Arcname(4)

\* C16: the metadata mapping and the metadata file change only at the
\* orchestrator's own steps.  While the jobs of get_folder_hash are on the
\* pool neither changes; the file changes only inside save_metadata, and the
\* mapping only when an invocation starts, sets an entry before saving, or
\* ends.
C16_OnlyOrchestratorWrites ==
    [][/\ (pc = "hashing" /\ pc' # "killed")
            => UNCHANGED <<metadata, metaFile>>
       /\ metaFile' # metaFile => pc \in {"save", "dump"}
       /\ metadata' # metadata
            => (pc = "save" \/ pc \in Ended \/ pc' \in Ended)]_vars

\* C16 witness: a unit was recorded by the orchestrator, and of the hashing
\* jobs of the next unit one has completed while another is still out.
C16_Witness ==
    /\ entry = "folder"
    /\ pc = "hashing"
    /\ futures # {}
    /\ futures # DOMAIN src[item]
    /\ metaFile.st = "ok"
    /\ DOMAIN metaFile.data # {}
    /\ metadata = metaFile.data

\* C17: when the folder branch of main.backup has completed on a source,
\* every file of the source is in the final archive exactly once, with its
\* content: in the inner compressed container when its lower-cased suffix is
\* not in SKIP_EXT, as a verbatim entry otherwise; and the recorded hashes
\* have one entry per file.
C17_EachFileOnce ==
    (entry = "mainfolder" /\ pc = "done" /\ edits = 0) =>
        /\ DOMAIN outFile.hashes = DOMAIN tree
        /\ \A f \in DOMAIN tree :
              IF Compressible(f)
              THEN /\ f \in DOMAIN outFile.packed
                   /\ outFile.packed[f] = tree[f]
                   /\ f \notin DOMAIN outFile.verbatim
              ELSE /\ f \in DOMAIN outFile.verbatim
                   /\ outFile.verbatim[f] = tree[f]
                   /\ f \notin DOMAIN outFile.packed

\* The archive the unit at hand is compressed into.
UnitArchive ==
    IF entry = "folder" THEN archives[item] ELSE backups[Len(backups)]

\* In backup_folder and in the file branch of main.backup the steps of
\* a unit come in the order fingerprint, change check, compression, metadata
\* update.  The check is entered from the fingerprint with a digest;
\* compression is entered only from the check, and only for a unit that is
\* not up to date; the metadata entry is set only after the compression has
\* returned, leaving a complete archive, and nowhere else.
OrderedStep ==
    entry \in {"folder", "mainfile"} =>
        /\ (pc' = "gate" /\ pc # "gate")
              => (pc \in {"hashing", "fhash"} /\ current_hash' # None)
        /\ (pc' \in {"zip", "compress"} /\ pc' # pc)
              => (pc = "gate" /\ current_hash # None /\ NeedsBackup)
        /\ (pc' = "save" /\ pc # "save")
              => (pc \in {"zipping", "compressing"}
                  /\ UnitArchive'.st = "complete")
        /\ (pc' = "dump" /\ pc # "dump")
              => (pc = "save" /\ UnitArchive.st = "complete"
                  /\ metadata' = MetaSet(metadata, GateKey, current_hash))
        /\ (metadata' # metadata /\ pc \notin Ended /\ pc' \notin Ended)
              => pc = "save"

\* C18: every step of backup_folder and of the file branch of main.backup
\* keeps the order fingerprint, change check, compression, metadata update.
C18_StepOrder == [][OrderedStep]_vars

\* C18 witness: the last unit of the source went through the four steps and
\* its entry is being saved.
C18_Witness ==
    /\ entry = "folder"
    /\ pc = "dump"
    /\ item = NumUnits
    /\ archives[item].st = "complete"
    /\ metadata[item] = current_hash
    /\ DOMAIN metadata = Units

\* C19: whenever merge_archives runs or has run, no compression worker is
\* still running and every temporary archive it is handed is a closed,
\* complete archive; when it has returned, the output path holds one
\* complete archive.
C19_MergeAfterWorkers ==
    (entry = "parallel" /\ subs # {} /\ pc \in {"extract", "merging", "done"})
    => /\ \A sf \in DOMAIN wstate : wstate[sf] # "running"
       /\ \A i \in 1..Len(temp_archives) :
             tmpArc[temp_archives[i]].st = "complete"
       /\ pc = "done" => outFile.st = "complete"

\* C19 witness: merge_archives has extracted the archives of two workers,
\* which completed in another order than they were submitted in, and is
\* writing the final archive.
C19_Witness ==
    /\ entry = "parallel"
    /\ pc = "merging"
    /\ Len(temp_archives) = 2
    /\ temp_archives[1] > temp_archives[2]
    /\ extracted = 2

\* A pass of the result loop pops at most one future at a step and never
\* puts one back; the loop is left with no future, each subfolder having
\* been counted once, as collected or as failed.
LoopPass ==
    /\ (pc = "collect" /\ pc' = "collect")
          => /\ futuresP' \subseteq futuresP
             /\ Cardinality(futuresP \ futuresP') <= 1
    /\ (pc = "collect" /\ pc' = "extract")
          => /\ futuresP = {}
             /\ Len(temp_archives) + Cardinality(errors) = Cardinality(subs)

\* A worker that has a file to write can put its progress message, however
\* many messages are waiting.
PutNeverBlocks ==
    \A sf \in DOMAIN wstate :
        (pc = "collect" /\ wstate[sf] = "running" /\ wTodo[sf] # {})
            => ENABLED WorkerWrite(sf)

\* C20: the result loop of parallel_compress is always left, each future
\* having been removed once and each subfolder counted once, and no worker
\* is ever held up by the progress queue.
C20_LoopTerminates ==
    /\ [][LoopPass]_vars
    /\ []PutNeverBlocks
    /\ (pc = "collect") ~> (pc # "collect")

\* C20 witness: the loop was left after both workers wrote, one returned and
\* one raised, in a run no kill disturbed.
C20_Witness ==
    /\ entry = "parallel"
    /\ pc = "extract"
    /\ faults = 0
    /\ Cardinality(errors) = 1
    /\ Len(temp_archives) = 1
    /\ \A sf \in subs : DOMAIN tmpArc[sf].entries # {}

\* C22: when parallel_compress has returned and every worker returned, the
\* archive at the output path holds every file under the folder whose
\* lower-cased suffix is not in skip_ext, the files directly in the folder
\* included, whether the folder has subfolders or not.
C22_EveryFileArchived ==
    (entry = "parallel" /\ pc = "done"
     /\ \A sf \in DOMAIN wstate : wstate[sf] = "returned")
    => /\ outFile.st = "complete"
       /\ outFile.packed =
             Restrict(tree, { p \in DOMAIN tree : Compressible(p) })

\* C21: backup_folder finds a top-level subfolder up to date only when the
\* archive it left for it holds the files the subfolder holds now: after a
\* file was added, removed, renamed or changed the digest differs from the
\* recorded one and the subfolder is archived again.
C21_ChangeDetected ==
    [][(entry = "folder" /\ pc = "gate" /\ pc' = "loop")
          => (archives[item].st = "complete"
              /\ archives[item].entries = src[item])]_vars

====
